---- MODULE Spec2Model ----
(***************************************************************************)
(* Model of app.py: a Streamlit page that serves dataset sentences to an   *)
(* annotator, appends one row per labelled submit to a shared Google       *)
(* sheet, and draws the next sentence among those the annotator has no     *)
(* row for.  A browser session is a slot of Sessions; every script run of  *)
(* a session is cut at its remote calls (sheet.get_all_records and         *)
(* sheet.append_row), which is where runs of different sessions interleave.*)
(***************************************************************************)
EXTENDS Naturals, Sequences, FiniteSets, TLC

VARIABLES df, sheet, clock, session_state, pc, run, page, hist

vars == <<df, sheet, clock, session_state, pc, run, page, hist>>

(***************************************************************************)
(* Bounds of the model.                                                    *)
(***************************************************************************)
\* rows the sheet may hold before the first session starts
MaxInitRows == 2
\* labelled submits are offered while the sheet holds fewer rows than this
MaxRows == 3

Sessions == {1, 2}

(***************************************************************************)
(* Python values.  A str is a sequence of one-character strings, an int is *)
(* a number; each is tagged, so that 10 and "10" are different values that *)
(* can be compared.                                                        *)
(***************************************************************************)
None == [none |-> TRUE]
Absent == [absent |-> TRUE]
PyInt(n) == [int |-> n]
PyStr(cs) == [str |-> cs]
Lit(s) == [lit |-> s]
PyList(xs) == [list |-> xs]
IsInt(v) == DOMAIN v = {"int"}

DigitChar(d) ==
  CASE d = 0 -> "0" [] d = 1 -> "1" [] d = 2 -> "2" [] d = 3 -> "3"
    [] d = 4 -> "4" [] d = 5 -> "5" [] d = 6 -> "6" [] d = 7 -> "7"
    [] d = 8 -> "8" [] d = 9 -> "9"

RECURSIVE IntToChars(_)
IntToChars(n) ==
  IF n < 10 THEN <<DigitChar(n)>>
  ELSE IntToChars(n \div 10) \o <<DigitChar(n % 10)>>

\* str(v) and Series.astype(str): decimal digits of an int, a str as it is
Str(v) == IF IsInt(v) THEN PyStr(IntToChars(v.int)) ELSE v

IsSpace(c) == c = " "

RECURSIVE LStrip(_)
LStrip(cs) ==
  IF cs # <<>> /\ IsSpace(Head(cs)) THEN LStrip(Tail(cs)) ELSE cs

RECURSIVE RStrip(_)
RStrip(cs) ==
  IF cs # <<>> /\ IsSpace(cs[Len(cs)]) THEN RStrip(SubSeq(cs, 1, Len(cs) - 1))
  ELSE cs

\* a name taken as typed
NoStrip(cs) == cs

\* name.strip()
Strip(cs) == RStrip(LStrip(cs))

(***************************************************************************)
(* Inputs.                                                                 *)
(***************************************************************************)
\* the two options of the radio
Labels == {Lit("Positive"), Lit("Negative")}

\* what the text input of the name page may hold when Start is pressed
NameInputs ==
  { <<>>, <<" ">>, <<"a">>, <<" ", "a", " ">>, <<"b">> }

\* the sentence_id column of framed_eval.csv (read_csv gives a numeric column
\* as ints); the second repeats an id
Datasets ==
  { <<PyInt(10), PyInt(11)>>,
    <<PyInt(10), PyInt(10)>> }

\* rows the sheet may hold at the start: get_all_records gives a numeric
\* cell as a number and any other cell as a str
InitRowPool ==
  { [annotator_id |-> PyStr(<<"a">>), sentence_id |-> PyInt(10),
     label |-> Lit("Positive"), timestamp |-> 0],
    [annotator_id |-> PyStr(<<"b">>), sentence_id |-> PyInt(10),
     label |-> Lit("Negative"), timestamp |-> 0],
    [annotator_id |-> PyStr(<<"a">>), sentence_id |-> PyStr(<<"s">>),
     label |-> Lit("Negative"), timestamp |-> 0] }

RECURSIVE SeqsUpTo(_, _)
SeqsUpTo(S, n) ==
  IF n = 0 THEN {<<>>}
  ELSE LET shorter == SeqsUpTo(S, n - 1)
       IN shorter \cup {Append(q, x) : q \in {r \in shorter : Len(r) = n - 1}, x \in S}

(***************************************************************************)
(* Helpers of app.py.                                                      *)
(***************************************************************************)
\* load_annotations_df: the rows of the sheet, sentence_id cast to str
load_annotations_df(rows) ==
  [i \in DOMAIN rows |-> [rows[i] EXCEPT !.sentence_id = Str(rows[i].sentence_id)]]

\* the rows of every annotator
UserAnnAll(annotations_df, annotator_id) == annotations_df

\* annotations_df[annotations_df["annotator_id"] == annotator_id]
UserAnn(annotations_df, annotator_id) ==
  SelectSeq(annotations_df, LAMBDA r : r.annotator_id = annotator_id)

\* the row put before all the others
append_annotation_first(rows, annotator_id, sentence_id, label, now) ==
  <<[annotator_id |-> annotator_id, sentence_id |-> Str(sentence_id),
     label |-> label, timestamp |-> now]>> \o rows

\* no row written when the annotator has one for the sentence
append_annotation_unique(rows, annotator_id, sentence_id, label, now) ==
  IF \E i \in DOMAIN rows : /\ rows[i].annotator_id = annotator_id
                            /\ Str(rows[i].sentence_id) = Str(sentence_id)
    THEN rows
    ELSE Append(rows, [annotator_id |-> annotator_id, sentence_id |-> Str(sentence_id),
                       label |-> label, timestamp |-> now])

\* append_annotation: one row, after all the others
append_annotation(rows, annotator_id, sentence_id, label, now) ==
  Append(rows, [annotator_id |-> annotator_id, sentence_id |-> Str(sentence_id),
                label |-> label, timestamp |-> now])

\* the ids as read_csv gave them, not cast to str
AllIdsRaw(data_df) == {data_df[i] : i \in DOMAIN data_df}

\* set(data_df["sentence_id"].astype(str).tolist())
AllIds(data_df) == {Str(data_df[i]) : i \in DOMAIN data_df}

\* set(user_ann["sentence_id"].astype(str).tolist())
AlreadyDone(annotations_df, annotator_id) ==
  LET user_ann == UserAnn(annotations_df, annotator_id)
  IN {Str(user_ann[i].sentence_id) : i \in DOMAIN user_ann}

\* every id, annotated or not
RemainingAll(data_df, annotations_df, annotator_id) == AllIds(data_df)

\* remaining = list(all_ids - already_done)
Remaining(data_df, annotations_df, annotator_id) ==
  AllIds(data_df) \ AlreadyDone(annotations_df, annotator_id)

\* a draw that starts over when nothing remains
get_next_sentence_id_again(data_df, annotations_df, annotator_id) ==
  LET remaining == Remaining(data_df, annotations_df, annotator_id)
  IN IF remaining = {} THEN AllIds(data_df) ELSE remaining

\* get_next_sentence_id: the values random.choice may return, or None
get_next_sentence_id(data_df, annotations_df, annotator_id) ==
  LET remaining == Remaining(data_df, annotations_df, annotator_id)
  IN IF remaining = {} THEN {None} ELSE remaining

\* the rows of all annotators counted
get_user_progress_all(data_df, annotations_df, annotator_id) ==
  <<Len(annotations_df), Len(data_df)>>

\* get_user_progress: <<done, total>>
get_user_progress(data_df, annotations_df, annotator_id) ==
  <<Len(UserAnn(annotations_df, annotator_id)), Len(data_df)>>

\* assign_random_label_order: random.sample of the two labels
assign_random_label_order ==
  { PyList(<<Lit("Positive"), Lit("Negative")>>),
    PyList(<<Lit("Negative"), Lit("Positive")>>) }

(***************************************************************************)
(* State.                                                                  *)
(*   df             the dataset's sentence_id column (load_data, cached)   *)
(*   sheet          the rows of the worksheet, in order                    *)
(*   clock          datetime.utcnow(), one tick per appended row           *)
(*   session_state  st.session_state of each browser session               *)
(*   pc             where the session's script run stands                  *)
(*   run            the values of the run: the Submit button, the radio,   *)
(*                  and the place of the row the run appended (0: none)    *)
(*   page           what the last run put on the page                      *)
(*   hist           history: the sheet at the start and the number of      *)
(*                  labelled submits made                                  *)
(***************************************************************************)
NewSession ==
  [annotator_id |-> Absent, label_order |-> Absent, current_sentence_id |-> Absent]

NoRun == [submitted |-> FALSE, label |-> None, row |-> 0]

NamePage == [view |-> "name", warning |-> FALSE, done |-> 0, total |-> 0]

Init ==
  /\ df \in Datasets
  /\ sheet \in SeqsUpTo(InitRowPool, MaxInitRows)
  /\ clock = 1
  /\ session_state = [s \in Sessions |-> NewSession]
  /\ pc = [s \in Sessions |-> "idle"]
  /\ run = [s \in Sessions |-> NoRun]
  /\ page = [s \in Sessions |-> NamePage]
  /\ hist = [sheet0 |-> sheet, submits |-> 0]

Identified(s) == session_state[s].annotator_id # Absent

(***************************************************************************)
(* The name page (lines 135-156).                                          *)
(***************************************************************************)
\* Start pressed with a blank name: a warning, and the run stops
StartBlank(s, name) ==
  /\ pc[s] = "idle"
  /\ ~Identified(s)
  /\ Strip(name) = <<>>
  /\ page' = [page EXCEPT ![s].warning = TRUE]
  /\ UNCHANGED <<df, sheet, clock, session_state, pc, run, hist>>

\* Start pressed with a name: the id and the label order are kept, st.rerun()
StartNamed(s, name, order) ==
  /\ pc[s] = "idle"
  /\ ~Identified(s)
  /\ Strip(name) # <<>>
  /\ session_state' = [session_state EXCEPT
        ![s].annotator_id = PyStr(Strip(name)),
        ![s].label_order = order]
  /\ pc' = [pc EXCEPT ![s] = "rerun"]
  /\ UNCHANGED <<df, sheet, clock, run, page, hist>>

(***************************************************************************)
(* The main page (lines 159-247).  A script run goes from the top to its   *)
(* st.stop() or st.rerun(); it is cut before each call of the sheet after  *)
(* its first.                                                              *)
(***************************************************************************)
\* the page when the submit handler does not look at the label
DisplayAnyLabel(s, cur, progress, r) ==
  LET shown(view, warning) ==
        [view |-> view, warning |-> warning, done |-> progress[1], total |-> progress[2]]
  IN IF cur = None
       THEN /\ page' = [page EXCEPT ![s] = shown("exhausted", FALSE)]
            /\ pc' = [pc EXCEPT ![s] = "idle"]
            /\ run' = [run EXCEPT ![s] = NoRun]
     ELSE IF r.submitted
       THEN /\ page' = [page EXCEPT ![s] = shown("sentence", FALSE)]
            /\ pc' = [pc EXCEPT ![s] = "append"]
            /\ run' = [run EXCEPT ![s] = r]
     ELSE /\ page' = [page EXCEPT ![s] = shown("sentence", FALSE)]
          /\ pc' = [pc EXCEPT ![s] = "idle"]
          /\ run' = [run EXCEPT ![s] = NoRun]

\* lines 195-238: the page for candidate cur with the widget values r, and
\* where the run goes next
Display(s, cur, progress, r) ==
  LET shown(view, warning) ==
        [view |-> view, warning |-> warning, done |-> progress[1], total |-> progress[2]]
  IN IF cur = None
       THEN /\ page' = [page EXCEPT ![s] = shown("exhausted", FALSE)]
            /\ pc' = [pc EXCEPT ![s] = "idle"]
            /\ run' = [run EXCEPT ![s] = NoRun]
     ELSE IF cur \notin AllIds(df)
       THEN /\ page' = [page EXCEPT ![s] = shown("not_found", FALSE)]
            /\ pc' = [pc EXCEPT ![s] = "idle"]
            /\ run' = [run EXCEPT ![s] = NoRun]
     ELSE IF r.submitted /\ r.label = None
       THEN /\ page' = [page EXCEPT ![s] = shown("sentence", TRUE)]
            /\ pc' = [pc EXCEPT ![s] = "idle"]
            /\ run' = [run EXCEPT ![s] = NoRun]
     ELSE IF r.submitted
       THEN /\ page' = [page EXCEPT ![s] = shown("sentence", FALSE)]
            /\ pc' = [pc EXCEPT ![s] = "append"]
            /\ run' = [run EXCEPT ![s] = r]
     ELSE /\ page' = [page EXCEPT ![s] = shown("sentence", FALSE)]
          /\ pc' = [pc EXCEPT ![s] = "idle"]
          /\ run' = [run EXCEPT ![s] = NoRun]

\* lines 159-192 and on: the label order is ensured, the sheet is read, the
\* progress is shown; with a candidate in the session the page follows,
\* without one the run goes on to choose_new_sentence_id
Main(s, r) ==
  LET annotator_id == session_state[s].annotator_id
      ann_df == load_annotations_df(sheet)
      progress == get_user_progress(df, ann_df, annotator_id)
  IN /\ \E order \in assign_random_label_order :
          session_state' = [session_state EXCEPT
             ![s].label_order = IF @ = Absent THEN order ELSE @]
     /\ IF session_state[s].current_sentence_id = Absent
          THEN /\ page' = [page EXCEPT ![s].done = progress[1],
                                       ![s].total = progress[2]]
               /\ pc' = [pc EXCEPT ![s] = "choose"]
               /\ run' = [run EXCEPT ![s] = r]
          ELSE Display(s, session_state[s].current_sentence_id, progress, r)

\* the run that st.rerun() asked for (lines 154 and 247): no button pressed
Rerun(s) ==
  /\ pc[s] = "rerun"
  /\ Main(s, NoRun)
  /\ UNCHANGED <<df, sheet, clock, hist>>

\* a run of the main page with no button pressed (a radio click, a reload)
Render(s) ==
  /\ pc[s] = "idle"
  /\ Identified(s)
  /\ Main(s, NoRun)
  /\ UNCHANGED <<df, sheet, clock, hist>>

\* Submit pressed, the radio holding label (None: nothing chosen)
Submit(s, label) ==
  /\ pc[s] = "idle"
  /\ page[s].view = "sentence"
  /\ Main(s, [submitted |-> TRUE, label |-> label, row |-> 0])
  /\ hist' = [hist EXCEPT !.submits = IF label = None THEN @ ELSE @ + 1]
  /\ UNCHANGED <<df, sheet, clock>>

\* line 193, choose_new_sentence_id: the sheet is read again and a candidate
\* drawn; the page follows
Choose(s) ==
  /\ pc[s] = "choose"
  /\ \E next_id \in get_next_sentence_id(df, load_annotations_df(sheet),
                                         session_state[s].annotator_id) :
        /\ session_state' = [session_state EXCEPT ![s].current_sentence_id = next_id]
        /\ Display(s, next_id, <<page[s].done, page[s].total>>, run[s])
  /\ UNCHANGED <<df, sheet, clock, hist>>

\* line 241, append_annotation
AppendRow(s) ==
  /\ pc[s] = "append"
  /\ sheet' = append_annotation(sheet, session_state[s].annotator_id,
                                session_state[s].current_sentence_id,
                                run[s].label, clock)
  /\ clock' = clock + 1
  /\ pc' = [pc EXCEPT ![s] = "advance"]
  /\ run' = [run EXCEPT ![s].row = Len(sheet) + 1]
  /\ UNCHANGED <<df, session_state, page, hist>>

\* lines 246-247, choose_new_sentence_id and st.rerun()
Advance(s) ==
  /\ pc[s] = "advance"
  /\ \E next_id \in get_next_sentence_id(df, load_annotations_df(sheet),
                                         session_state[s].annotator_id) :
        session_state' = [session_state EXCEPT ![s].current_sentence_id = next_id]
  /\ pc' = [pc EXCEPT ![s] = "rerun"]
  /\ UNCHANGED <<df, sheet, clock, run, page, hist>>

\* the browser session ends: its session state is discarded
EndSession(s) ==
  /\ pc[s] = "idle"
  /\ Identified(s)
  /\ session_state' = [session_state EXCEPT ![s] = NewSession]
  /\ run' = [run EXCEPT ![s] = NoRun]
  /\ page' = [page EXCEPT ![s] = NamePage]
  /\ UNCHANGED <<df, sheet, clock, pc, hist>>

\* what the radio of session s may hold when Submit is pressed: nothing, or
\* the option shown first (either label, by the order the session drew)
RadioInputs(s) ==
  {None} \cup (IF session_state[s].label_order = Absent THEN {}
               ELSE {session_state[s].label_order.list[1]})

Next ==
  \E s \in Sessions :
    \/ \E name \in NameInputs : StartBlank(s, name)
    \/ \E name \in NameInputs, order \in assign_random_label_order :
          StartNamed(s, name, order)
    \/ Rerun(s)
    \/ Render(s)
    \/ \E label \in RadioInputs(s) :
          /\ label # None => Len(sheet) < MaxRows
          /\ Submit(s, label)
    \/ Choose(s)
    \/ AppendRow(s)
    \/ Advance(s)

\* two browser sessions at once, with any ids
Spec == Init /\ [][Next]_vars

(***************************************************************************)
(* Terms of the properties, stated on the rows of the sheet.               *)
(***************************************************************************)
\* the ids of the dataset, as text
DatasetIds == {Str(df[i]) : i \in DOMAIN df}

\* the places of the rows of annotator u
RowsOf(rows, u) == {i \in DOMAIN rows : rows[i].annotator_id = u}

\* the ids annotator u has a row for, as text
IdsOf(rows, u) == {Str(rows[i].sentence_id) : i \in RowsOf(rows, u)}

\* the dataset ids annotator u has no row for
Unseen(rows, u) == DatasetIds \ IdsOf(rows, u)

\* two rows of one annotator for one sentence
HasDuplicate(rows) ==
  \E i, j \in DOMAIN rows :
     /\ i < j
     /\ rows[i].annotator_id = rows[j].annotator_id
     /\ Str(rows[i].sentence_id) = Str(rows[j].sentence_id)

\* every annotator id that can occur
Annotators ==
  {PyStr(Strip(name)) : name \in NameInputs} \cup {r.annotator_id : r \in InitRowPool}

\* row r is the record <<u, id, label>>, whatever its timestamp
IsRecord(r, u, id, label) ==
  r.annotator_id = u /\ r.sentence_id = id /\ r.label = label

(***************************************************************************)
(* Normal use: the sheet starts without duplicates, and a session starts   *)
(* under an id only while no other session holds that id.  The sessions   *)
(* of slot 1 end and others follow them, under the same id or another;     *)
(* slot 2 holds one session, which may start at any time.                  *)
(***************************************************************************)
InitNormal == Init /\ ~HasDuplicate(sheet)

StartAlone(s, name, order) ==
  /\ \A o \in Sessions \ {s} : session_state[o].annotator_id # PyStr(Strip(name))
  /\ StartNamed(s, name, order)

NextNormal ==
  \E s \in Sessions :
    \/ \E name \in NameInputs : StartBlank(s, name)
    \/ \E name \in NameInputs, order \in assign_random_label_order :
          StartAlone(s, name, order)
    \/ Rerun(s)
    \/ Render(s)
    \/ \E label \in RadioInputs(s) :
          /\ label # None => Len(sheet) < MaxRows
          /\ Submit(s, label)
    \/ Choose(s)
    \/ AppendRow(s)
    \/ Advance(s)
    \/ s = 1 /\ EndSession(s)

SpecNormal == InitNormal /\ [][NextNormal]_vars

(***************************************************************************)
(* One session alone, whose user goes on submitting a label and whose      *)
(* script runs go on to their end.                                         *)
(***************************************************************************)
NextSingle ==
  \/ \E name \in NameInputs : StartBlank(1, name)
  \/ \E name \in NameInputs, order \in assign_random_label_order :
        StartNamed(1, name, order)
  \/ Rerun(1)
  \/ Render(1)
  \/ \E label \in Labels \cup {None} : Submit(1, label)
  \/ Choose(1)
  \/ AppendRow(1)
  \/ Advance(1)

SpecSingle ==
  /\ Init
  /\ [][NextSingle]_vars
  /\ WF_vars(\E label \in Labels : Submit(1, label))
  /\ WF_vars(Rerun(1) \/ Choose(1) \/ AppendRow(1) \/ Advance(1))

(***************************************************************************)
(* Properties.                                                             *)
(***************************************************************************)
UserOf(s) == session_state[s].annotator_id
CurrentOf(s) == session_state[s].current_sentence_id

\* a run of session s that reads the sheet at line 181
Reads(s) ==
  Render(s) \/ Rerun(s) \/ \E label \in Labels \cup {None} : Submit(s, label)

\* C1: for every dataset, sheet and annotator u, get_next_sentence_id draws
\* among the dataset ids u has no row for, and gives None exactly when there
\* is none; the rows of other annotators take no id away.
C1_PickUnseen ==
  \A u \in Annotators :
    LET picks == get_next_sentence_id(df, load_annotations_df(sheet), u)
        own == SelectSeq(sheet, LAMBDA r : r.annotator_id = u)
    IN /\ picks = IF Unseen(sheet, u) = {} THEN {None} ELSE Unseen(sheet, u)
       /\ picks = get_next_sentence_id(df, load_annotations_df(own), u)

\* a session holds a candidate that another annotator has a row for, while
\* its own annotator has a row for another id
C1_Witness ==
  \E s \in Sessions :
    /\ Identified(s)
    /\ CurrentOf(s) \in Unseen(sheet, UserOf(s))
    /\ IdsOf(sheet, UserOf(s)) \cap DatasetIds # {}
    /\ \E i \in DOMAIN sheet :
          /\ sheet[i].annotator_id # UserOf(s)
          /\ Str(sheet[i].sentence_id) = CurrentOf(s)

\* C2: a submit with a label appends exactly one row <<u, s, l, now>> after
\* the rows there are, changing none of them, and the candidate drawn next
\* comes from the sheet read after that: a dataset id u has no row for (so
\* not s), or None when there is none.
C2_SubmitAppendsAndAdvances ==
  [][\A s \in Sessions :
       /\ (\E label \in Labels : Submit(s, label)) =>
             /\ pc'[s] = "append"
             /\ run'[s].label \in Labels
             /\ sheet' = sheet
             /\ CurrentOf(s)' = CurrentOf(s)
       /\ AppendRow(s) =>
             /\ Len(sheet') = Len(sheet) + 1
             /\ SubSeq(sheet', 1, Len(sheet)) = sheet
             /\ IsRecord(sheet'[Len(sheet')], UserOf(s), CurrentOf(s), run[s].label)
             /\ sheet'[Len(sheet')].timestamp = clock
             /\ CurrentOf(s) \in DatasetIds
             /\ pc'[s] = "advance"
       /\ Advance(s) =>
             /\ sheet' = sheet
             /\ CurrentOf(s) \in IdsOf(sheet, UserOf(s))
             /\ CurrentOf(s)' # CurrentOf(s)
             /\ IF Unseen(sheet, UserOf(s)) = {}
                  THEN CurrentOf(s)' = None
                  ELSE CurrentOf(s)' \in Unseen(sheet, UserOf(s))
  ]_vars

\* the dataset is 10, 11; a session has written a Positive row for 10 and
\* has drawn 11
C2_Witness ==
  \E s \in Sessions :
    /\ df = <<PyInt(10), PyInt(11)>>
    /\ pc[s] = "rerun"
    /\ run[s].row = Len(sheet)
    /\ run[s].row > 0
    /\ IsRecord(sheet[run[s].row], UserOf(s), PyStr(<<"1", "0">>), Lit("Positive"))
    /\ CurrentOf(s) = PyStr(<<"1", "1">>)

\* C3: a run that ends with a page, made while the sheet holds a row of the
\* session's annotator for every dataset id, shows the exhaustion message and
\* no sentence.
C3_ExhaustedWhenComplete ==
  [][\A s \in Sessions :
       ( /\ Reads(s) \/ Choose(s)
         /\ pc'[s] # "choose"
         /\ Unseen(sheet, UserOf(s)) = {} )
       => (page'[s].view = "exhausted" /\ pc'[s] = "idle")
  ]_vars

\* C4: a submit with nothing chosen writes no row and leaves the session's
\* id, label order and candidate as they were; the sentence stays on the
\* page, with the prompt, and the next run shows it again.
C4_UnlabelledSubmit ==
  [][\A s \in Sessions :
       /\ Submit(s, None) =>
             /\ sheet' = sheet
             /\ session_state' = session_state
             /\ pc'[s] = "idle"
             /\ page'[s].view = "sentence"
             /\ page'[s].warning
       /\ (Render(s) /\ page[s].view = "sentence" /\ page[s].warning) =>
             /\ page'[s].view = "sentence"
             /\ CurrentOf(s)' = CurrentOf(s)
             /\ CurrentOf(s) \in DatasetIds
  ]_vars

\* a session shows its sentence with the prompt
C4_Witness ==
  \E s \in Sessions :
    /\ pc[s] = "idle"
    /\ page[s].view = "sentence"
    /\ page[s].warning
    /\ CurrentOf(s) \in DatasetIds

\* C5: the progress a run shows is the number of rows of the sheet whose
\* annotator_id is the session's, each duplicate counted and no row of
\* another annotator counted, beside the number of dataset rows.
C5_ProgressCountsOwnRows ==
  [][\A s \in Sessions :
       /\ Reads(s) =>
             /\ page'[s].done = Cardinality(RowsOf(sheet, UserOf(s)))
             /\ page'[s].total = Len(df)
       /\ Choose(s) =>
             /\ page'[s].done = page[s].done
             /\ page'[s].total = page[s].total
  ]_vars

\* a page shows a count of two rows for one sentence, beside rows of others
C5_Witness ==
  \E s \in Sessions :
    /\ Identified(s)
    /\ pc[s] = "idle"
    /\ page[s].done = 2
    /\ page[s].done = Cardinality(RowsOf(sheet, UserOf(s)))
    /\ Cardinality(IdsOf(sheet, UserOf(s))) = 1
    /\ Len(sheet) > page[s].done

\* C6 as stated: when a session lists the rows after its append, the last
\* row listed is the one it appended.
C6_LastIsAppended ==
  [][\A s \in Sessions :
       Advance(s) =>
         LET listed == load_annotations_df(sheet)
         IN IsRecord(listed[Len(listed)], UserOf(s), CurrentOf(s), run[s].label)
  ]_vars

\* C6 as amended: the rows listed after the append hold the appended record
\* at the place it was written to, one past the rows there were; the rows
\* after it are those other sessions appended since.
C6_AppendedAtItsPlace ==
  [][\A s \in Sessions :
       /\ AppendRow(s) => run'[s].row = Len(sheet) + 1
       /\ Advance(s) =>
            LET listed == load_annotations_df(sheet)
            IN /\ run[s].row \in 1..Len(listed)
               /\ IsRecord(listed[run[s].row], UserOf(s), CurrentOf(s), run[s].label)
  ]_vars

\* a session has listed the rows after another session appended behind it
C6_Witness ==
  \E s \in Sessions :
    /\ pc[s] = "rerun"
    /\ run[s].row > 0
    /\ run[s].row < Len(sheet)
    /\ sheet[run[s].row].annotator_id = UserOf(s)

Spaces(n) == [k \in 1..n |-> " "]

\* t is name without the spaces at its ends, and is not empty
IsTrimOf(t, name) ==
  /\ t # <<>>
  /\ t[1] # " "
  /\ t[Len(t)] # " "
  /\ \E i, j \in 0..Len(name) : name = Spaces(i) \o t \o Spaces(j)

AllSpaces(name) == \A k \in DOMAIN name : name[k] = " "

\* C7: a session gets its id only by a start with a name that is not blank,
\* and the id is the name without the spaces at its ends; a start with a
\* blank name leaves it without id; without id the session runs nothing of
\* the main page; the id, once set, stays.
C7_Identify ==
  /\ [](\A s \in Sessions :
          ~Identified(s) =>
             /\ pc[s] = "idle"
             /\ page[s].view = "name"
             /\ session_state[s] = NewSession
             /\ run[s] = NoRun)
  /\ [][\A s \in Sessions :
          /\ (~Identified(s) /\ Identified(s)') =>
                /\ \E name \in NameInputs : IsTrimOf(UserOf(s)'.str, name)
                /\ \E name \in NameInputs, order \in assign_random_label_order :
                      StartNamed(s, name, order)
                /\ sheet' = sheet
          /\ \A name \in NameInputs :
                /\ AllSpaces(name) =>
                      \A order \in assign_random_label_order : ~StartNamed(s, name, order)
                /\ StartBlank(s, name) =>
                      /\ AllSpaces(name)
                      /\ ~Identified(s)'
                      /\ sheet' = sheet
          /\ ~Identified(s) => (sheet' = sheet \/ \E o \in Sessions \ {s} : AppendRow(o))
          /\ Identified(s) => UserOf(s)' = UserOf(s)
     ]_vars

\* one session annotates as "a" while the other has been refused a blank name
C7_Witness ==
  \E s, o \in Sessions :
    /\ UserOf(s) = PyStr(<<"a">>)
    /\ page[s].view = "sentence"
    /\ ~Identified(o)
    /\ page[o].warning

\* C8: in normal use the sheet never holds two rows of one annotator for one
\* sentence.
C8_NoDuplicates == ~HasDuplicate(sheet)

\* the sessions have written three rows: two of one annotator, one of another
C8_Witness ==
  /\ Len(sheet) = 3
  /\ \A i \in DOMAIN sheet : sheet[i].timestamp > 0
  /\ \E i, j \in DOMAIN sheet :
        /\ sheet[i].annotator_id = sheet[j].annotator_id
        /\ sheet[i].sentence_id # sheet[j].sentence_id
  /\ \E i, j \in DOMAIN sheet : sheet[i].annotator_id # sheet[j].annotator_id

\* the runs that have taken a labelled submit and not yet written its row
Pending == {s \in Sessions : pc[s] = "append"}

UniqueIds == Cardinality(DatasetIds) = Len(df)

\* every row the sheet started with for u names a dataset id
KnownIds(u) == IdsOf(hist.sheet0, u) \subseteq DatasetIds

\* the sheet started with at most one row of u for each sentence
NoDuplicateOf(u) ==
  Cardinality(RowsOf(hist.sheet0, u)) = Cardinality(IdsOf(hist.sheet0, u))

\* the rows the one session has written
Appended == Len(sheet) - Len(hist.sheet0)

\* C10 as stated, its part on the progress: with unique dataset ids and every
\* row of u at the start naming a dataset id, the count shown never exceeds
\* the number of dataset rows.
C10_ProgressBounded ==
  (Identified(1) /\ UniqueIds /\ KnownIds(UserOf(1)))
     => page[1].done <= page[1].total

\* C10 as amended: the sheet moreover starts with at most one row of u per
\* sentence.  Then the session writes no more rows than u had ids left at the
\* start, the count shown never exceeds the number of dataset rows, the
\* session comes to the exhaustion page, and writes nothing from then on.
C10_SessionTerminates ==
  /\ [](( /\ Identified(1)
          /\ UniqueIds
          /\ KnownIds(UserOf(1))
          /\ NoDuplicateOf(UserOf(1)) )
        => /\ Appended + Cardinality(Pending)
                <= Cardinality(Unseen(hist.sheet0, UserOf(1)))
           /\ page[1].done <= page[1].total)
  /\ [](Identified(1) => <>(pc[1] = "idle" /\ page[1].view = "exhausted"))
  /\ [][page[1].view = "exhausted" =>
          (sheet' = sheet /\ page'[1].view = "exhausted")]_vars

\* the session has annotated both sentences of the dataset and shows the
\* exhaustion page with a full count
C10_Witness ==
  /\ UniqueIds
  /\ KnownIds(UserOf(1))
  /\ NoDuplicateOf(UserOf(1))
  /\ pc[1] = "idle"
  /\ page[1].view = "exhausted"
  /\ Appended = 2
  /\ page[1].done = page[1].total

====
